---- MODULE Spec2Model ----
(***************************************************************************)
(* Verification model of the protective layer of the fake-news detector:   *)
(* the Redis cache and fixed-window rate limiter (services/redis.ts,       *)
(* models/CacheModel.ts, middleware/rateLimit.ts), the Postgres budget     *)
(* tracker (models/BudgetModel.ts) and the analyzeText resolver            *)
(* (resolvers/analysisResolver.ts).                                        *)
(*                                                                         *)
(* Time is counted in whole seconds.  Money is counted in units of         *)
(* 0.001 USD (every amount of the model is a multiple of it, so the        *)
(* DECIMAL(10,4) columns of budget_tracking keep it exactly); percentages  *)
(* are counted in hundredths of a percent, the resolution of the           *)
(* DECIMAL(5,2) column percentage_used.                                    *)
(***************************************************************************)
EXTENDS Integers, Sequences, FiniteSets, TLC

VARIABLES
    now,        \* wall clock, seconds
    redisUp,    \* TRUE while the Redis server answers commands
    redis,      \* the Redis keyspace: key -> entry
    req,        \* rate-limited HTTP requests: proc -> position and locals
    win,        \* history: per rate-limit key, the calls of the current window
    calls,      \* history: number of handlers started so far
    cop,        \* the last CacheStore operation and its outcome
    dbUp,       \* TRUE while Postgres answers queries
    month,      \* the current month (the YYYY-MM of the wall clock), numbered
    budget,     \* the rows of table budget_tracking
    bud,        \* addCost calls: proc -> position and locals
    bq,         \* the last isBudgetExceeded query and its answer
    added,      \* history: per month, the amounts of the addCost calls that returned
    an,         \* analyzeText calls: proc -> position and locals
    analyses,   \* number of rows of table analyses
    stats,      \* total_analyses of the statistics row (-1: no row yet)
    classifierCalls \* history: per cache key, the analyses computed for it

redisVars == <<now, redisUp, redis>>
rateVars == <<req, win>>
dbVars == <<dbUp, month, budget>>
budgetVars == <<bud, bq, added>>
analyzeVars == <<an, analyses, stats, classifierCalls>>

vars == <<now, redisUp, redis, req, win, calls, cop, dbUp, month, budget, bud, bq,
          added, an, analyses, stats, classifierCalls>>

-----------------------------------------------------------------------------
(* Bounds of the model *)

MaxTime == 3        \* the clock stops ticking here
MaxCalls == 3       \* handlers started in one behaviour
MaxLimit == 2       \* largest rate limit a route is configured with
MaxWindow == 2      \* longest rate-limit window, seconds
MaxAnalyses == 2    \* analyzeText calls started in one behaviour

Procs == {"w1", "w2"}           \* concurrent request handlers
Idents == {"ip1", "ip2"}        \* client addresses
Limits == 1..MaxLimit
Windows == 1..MaxWindow

-----------------------------------------------------------------------------
(* The Redis keyspace.  An entry is a string value with an optional        *)
(* expiration; kind "int" marks a value that parses as an integer.         *)

NoExpire == -1
Absent == [kind |-> "none", num |-> 0, str |-> "", exp |-> NoExpire]
IntVal(n, e) == [kind |-> "int", num |-> n, str |-> "", exp |-> e]
StrVal(s, e) == [kind |-> "str", num |-> 0, str |-> s, exp |-> e]

RateKey(identifier) == "rate_limit:" \o identifier

\* const key = `rate_limit:${identifier}` in checkRateLimit(identifier, limit,
\* timeWindow), which the middleware calls with the client address.
checkRateLimit_key(identifier, limit, timeWindow) == RateKey(identifier)
RateKeys == {RateKey(i) : i \in Idents}

\* Keys handed to the generic cache operations: an empty key, an ordinary
\* key, and a key of 501 characters (named, not spelled out).  Only the
\* ordinary key passes CacheKeySchema and reaches the store.
LongKey == "key-of-501-characters"
PlainKeys == {"k1"}
CacheKeyInputs == {"", LongKey} \cup PlainKeys

\* Inputs of analyzeText: texts, the empty text, and an optional URL ("" is
\* no URL).
Texts == {"t1", "t2", ""}
Urls == {"", "http://u", "http://v"}
AnalyzeInputs == {<<"t1", "">>, <<"", "">>, <<"t1", "http://u">>}

\* The mutation carried by the requests that are followed through the
\* rate-limit middleware.
GateInputs == {<<"t1", "http://u">>}

\* sha256 as a hex digest, taken to be free of collisions.
Sha256Hex(content) == "sha256(" \o content \o ")"

generateAnalysisKey_TextAndUrl(text, url) ==
    "analysis:" \o Sha256Hex("url:" \o url \o "text:" \o text)

\* generateAnalysisKey(text, url)
generateAnalysisKey(text, url) ==
    "analysis:" \o Sha256Hex(IF url # "" THEN "url:" \o url ELSE "text:" \o text)

AnalysisKeys == {generateAnalysisKey(t, u) : t \in Texts, u \in Urls}

Keys == RateKeys \cup PlainKeys \cup AnalysisKeys

\* The length of a key: "analysis:" and 64 hexadecimal digits for an
\* analysis key.
KeyLength(key) ==
    IF key = LongKey THEN 501
    ELSE IF key \in AnalysisKeys THEN 73
    ELSE Len(key)

Purge_Late(store, t) ==
    [k \in DOMAIN store |->
        IF store[k].exp # NoExpire /\ store[k].exp < t THEN Absent ELSE store[k]]

\* Redis drops a key once its expiration time is reached.
Purge(store, t) ==
    [k \in DOMAIN store |->
        IF store[k].exp # NoExpire /\ store[k].exp <= t THEN Absent ELSE store[k]]

\* INCR key: the value after the increment; a missing key counts from 0 and
\* is created without an expiration, an existing key keeps its expiration.
IncrReply(store, k) ==
    IF store[k].kind = "none" THEN 1 ELSE store[k].num + 1

IncrStore(store, k) ==
    [store EXCEPT ![k] = IntVal(IncrReply(store, k), store[k].exp)]

\* EXPIRE key seconds: sets the expiration of an existing key.
ExpireStore(store, k, seconds, t) ==
    IF store[k].kind = "none" THEN store
    ELSE IF seconds <= 0 THEN [store EXCEPT ![k] = Absent]
    ELSE [store EXCEPT ![k].exp = t + seconds]

\* TTL key: -2 for a missing key, -1 for a key without expiration, else the
\* remaining seconds.
TtlReply(store, k, t) ==
    IF store[k].kind = "none" THEN -2
    ELSE IF store[k].exp = NoExpire THEN -1
    ELSE store[k].exp - t

Max(a, b) == IF a >= b THEN a ELSE b

-----------------------------------------------------------------------------
(* The cache: cacheAnalysis / getCachedAnalysis of the Redis service, and   *)
(* CacheModel.set / CacheModel.get above them.                              *)

DefaultTTL == 3600
MaxTTL == 86400
MaxKeyLength == 500

\* Payloads handed to the cache (data: unknown): null, undefined, a JSON
\* object and the number NaN.  A JSON value is named by its JSON text.
Null == "null"
Undefined == "undefined"
Payloads == {Null, Undefined, "{a}", "NaN"}

\* The TTL argument left out by the caller.
TtlOmitted == -1
TtlInputs == {0, 1, MaxTTL + 1, TtlOmitted}

\* ttl: number = 3600 in the parameter lists of cacheAnalysis and
\* CacheModel.set.
DefaultedTTL(ttl) == IF ttl = TtlOmitted THEN DefaultTTL ELSE ttl

\* JSON.stringify(data): undefined has no JSON text and NaN is written as
\* null.
JSONstringify(data) ==
    IF data = Undefined THEN Undefined
    ELSE IF data = "NaN" THEN "null"
    ELSE data

\* cached ? JSON.parse(cached) : null
JSONparse(text) == IF text = "" THEN Null ELSE text

\* CacheKeySchema and CacheTTLSchema
CacheKeyValid(key) == KeyLength(key) >= 1 /\ KeyLength(key) <= MaxKeyLength
CacheTTLValid(ttl) == ttl >= 1 /\ ttl <= MaxTTL

\* SETEX key seconds value is refused for a non-positive expiration, and
\* the client refuses a value that is not a string.
SetExAccepted(text, ttl) == ttl > 0 /\ text # Undefined

cacheAnalysis_NoCatch(store, up, key, data, ttl, t) ==
    IF up /\ SetExAccepted(JSONstringify(data), ttl)
    THEN [store |-> [store EXCEPT ![key] = StrVal(JSONstringify(data), t + ttl)],
          raised |-> FALSE]
    ELSE [store |-> store, raised |-> TRUE]

\* cacheAnalysis(key, data, ttl): the store after the call, and whether the
\* call raised.  Every failure is caught and logged.
cacheAnalysis(store, up, key, data, ttl, t) ==
    IF up /\ SetExAccepted(JSONstringify(data), ttl)
    THEN [store |-> [store EXCEPT ![key] = StrVal(JSONstringify(data), t + ttl)],
          raised |-> FALSE]
    ELSE [store |-> store, raised |-> FALSE]

getCachedAnalysis_NoCatch(store, up, key) ==
    IF up /\ store[key].kind # "none"
    THEN [value |-> IF store[key].kind = "int" THEN "number"
                    ELSE JSONparse(store[key].str),
          raised |-> FALSE]
    ELSE [value |-> Null, raised |-> ~up]

\* getCachedAnalysis(key): the value returned, and whether the call raised.
getCachedAnalysis(store, up, key) ==
    IF up /\ store[key].kind # "none"
    THEN [value |-> IF store[key].kind = "int" THEN "number"
                    ELSE JSONparse(store[key].str),
          raised |-> FALSE]
    ELSE [value |-> Null, raised |-> FALSE]

\* CacheModel.set(key, data, ttl = 3600): the schemas raise on a bad key or
\* TTL before the store is touched.
CacheModel_set(store, up, key, data, ttl, t) ==
    IF ~CacheKeyValid(key) \/ ~CacheTTLValid(ttl)
    THEN [store |-> store, raised |-> TRUE]
    ELSE cacheAnalysis(store, up, key, data, ttl, t)

\* CacheModel.get(key)
CacheModel_get(store, up, key) ==
    IF ~CacheKeyValid(key)
    THEN [value |-> Null, raised |-> TRUE]
    ELSE getCachedAnalysis(store, up, key)

\* The last cache operation (ttl is the TTL after defaulting), and as
\* history the last set whose entry reached the store: its key, payload,
\* time and TTL, and whether the caller gave that TTL.
NoCacheOp == [op |-> "none", layer |-> "", key |-> "", data |-> Null, ttl |-> 0,
              up |-> TRUE, raised |-> FALSE, value |-> Null,
              lastGiven |-> TRUE, lastKey |-> "", lastData |-> Null, lastAt |-> 0, lastTtl |-> 0]

\* A caller runs CacheModel.set, or cacheAnalysis directly (layer "redis").
CacheSet(layer, key, data, ttlArg) ==
    LET ttl == DefaultedTTL(ttlArg)
        r == IF layer = "model"
             THEN CacheModel_set(redis, redisUp, key, data, ttl, now)
             ELSE cacheAnalysis(redis, redisUp, key, data, ttl, now)
        stored == /\ redisUp /\ ~r.raised /\ key \in DOMAIN redis
                  /\ r.store[key] = StrVal(JSONstringify(data), now + ttl)
                  /\ SetExAccepted(JSONstringify(data), ttl)
    IN
    /\ calls < MaxCalls
    /\ calls' = calls + 1
    /\ redis' = r.store
    /\ cop' = [op |-> "set", layer |-> layer, key |-> key, data |-> data, ttl |-> ttl,
               up |-> redisUp, raised |-> r.raised, value |-> Null,
               lastGiven |-> IF stored THEN ttlArg # TtlOmitted ELSE cop.lastGiven,
               lastKey |-> IF stored THEN key ELSE cop.lastKey,
               lastData |-> IF stored THEN data ELSE cop.lastData,
               lastAt |-> IF stored THEN now ELSE cop.lastAt,
               lastTtl |-> IF stored THEN ttl ELSE cop.lastTtl]
    /\ UNCHANGED <<now, redisUp, req, win, dbVars, budgetVars, analyzeVars>>

\* A caller runs CacheModel.get, or getCachedAnalysis directly.
CacheGet(layer, key) ==
    LET r == IF layer = "model"
             THEN CacheModel_get(redis, redisUp, key)
             ELSE getCachedAnalysis(redis, redisUp, key)
    IN
    /\ calls < MaxCalls
    /\ calls' = calls + 1
    /\ cop' = [cop EXCEPT !.op = "get", !.layer = layer, !.key = key, !.data = Null,
                          !.ttl = 0, !.up = redisUp, !.raised = r.raised,
                          !.value = r.value]
    /\ UNCHANGED <<now, redisUp, redis, req, win, dbVars, budgetVars, analyzeVars>>

\* A caller runs CacheModel.delete(key): the key is checked, then
\* await this.set(validatedKey, null, 1).
CacheDelete(key) ==
    LET r == IF ~CacheKeyValid(key) THEN [store |-> redis, raised |-> TRUE]
             ELSE CacheModel_set(redis, redisUp, key, Null, 1, now)
        stored == redisUp /\ ~r.raised
    IN
    /\ calls < MaxCalls
    /\ calls' = calls + 1
    /\ redis' = r.store
    /\ cop' = [op |-> "delete", layer |-> "model", key |-> key, data |-> Null, ttl |-> 1,
               up |-> redisUp, raised |-> r.raised, value |-> Null,
               lastGiven |-> IF stored THEN TRUE ELSE cop.lastGiven,
               lastKey |-> IF stored THEN key ELSE cop.lastKey,
               lastData |-> IF stored THEN Null ELSE cop.lastData,
               lastAt |-> IF stored THEN now ELSE cop.lastAt,
               lastTtl |-> IF stored THEN 1 ELSE cop.lastTtl]
    /\ UNCHANGED <<now, redisUp, req, win, dbVars, budgetVars, analyzeVars>>

-----------------------------------------------------------------------------
(* BudgetModel: table budget_tracking, addCost and isBudgetExceeded.        *)
(* total_used and total_remaining are DECIMAL(10,4), percentage_used is     *)
(* DECIMAL(5,2): Postgres rounds what is written to the column's scale.     *)

MonthlyBudget == 25000      \* the $25 of addCost, in units of 0.001 USD
DefaultThreshold == 90
MockCost == 1               \* the $0.001 analyzeText charges per analysis

Months == {0, 1}
Amounts == {-1, 0, 1, 2, 12500, 24999, MonthlyBudget + 1}
Thresholds == {DefaultThreshold, 100}

\* n / d rounded to the nearest integer, halves up (n >= 0, d > 0).
RoundDiv(n, d) == (2 * n + d) \div (2 * d)

\* used / total * 100 as the DECIMAL(5,2) column keeps it, in hundredths.
StoredPercentage(used, total) == RoundDiv(used * 10000, total)

\* AddCostSchema
AddCostValid(amount) == amount >= 0

\* CreateBudgetSchema and UpdateBudgetSchema on the values addCost hands
\* them, where percentage_used is used / total * 100 (NaN when total is 0).
BudgetSchemaValid(used, remaining, total) ==
    /\ used >= 0
    /\ remaining >= 0
    /\ total # 0
    /\ used * 100 >= 0
    /\ used * 100 <= 100 * total

\* BudgetThresholdSchema
ThresholdValid(threshold) == threshold >= 0 /\ threshold <= 100

NoRow == [id |-> 0, month |-> -1, used |-> 0, remaining |-> 0, pct |-> 0]

\* SELECT * FROM budget_tracking WHERE month_year = $1: the rows that match.
\* The code takes rows[0]; the table has no unique constraint on month_year
\* and the query no ORDER BY, so with several rows it may be any of them.
RowsOfMonth(rows, m) == {r \in rows : r.month = m}

addCost_NewRow_CarryOver(rows, m, amount) ==
    LET before == {r \in rows : r.month = m - 1}
        carried == IF before = {} THEN 0 ELSE (CHOOSE r \in before : TRUE).used
    IN
    [id |-> Cardinality(rows) + 1, month |-> m, used |-> carried + amount,
     remaining |-> MonthlyBudget - carried - amount,
     pct |-> StoredPercentage(carried + amount, MonthlyBudget)]

\* The row addCost inserts for a month without one.
addCost_NewRow(rows, m, amount) ==
    [id |-> Cardinality(rows) + 1, month |-> m, used |-> amount,
     remaining |-> MonthlyBudget - amount,
     pct |-> StoredPercentage(amount, MonthlyBudget)]

\* The row addCost writes over the one it read: the new values are computed
\* from the values read, not from the values stored at the time of the write.
addCost_UpdatedRow(rows, row, amount) ==
    [row EXCEPT !.used = row.used + amount,
                !.remaining = row.remaining - amount,
                !.pct = StoredPercentage(row.used + amount, row.used + row.remaining)]

\* isBudgetExceeded(threshold) on the row getCurrentMonth returned.
isBudgetExceeded(row, threshold) ==
    IF row = NoRow
    THEN [exceeded |-> FALSE, found |-> FALSE, pct |-> 0, used |-> 0,
          threshold |-> threshold]
    ELSE [exceeded |-> row.pct >= threshold * 100, found |-> TRUE, pct |-> row.pct,
          used |-> row.used, threshold |-> threshold]

\* The last query: its answer, and (history) whether it was made before any
\* cost had been added in its month.
NoQuery == [exceeded |-> FALSE, found |-> FALSE, pct |-> 0, used |-> 0, threshold |-> -1,
            fresh |-> FALSE]

BudIdle == [pc |-> "idle", amount |-> 0, month |-> 0, row |-> NoRow,
            raised |-> FALSE, ret |-> NoRow]

\* The addCost mutation is called: AddCostSchema.parse, then the month.
AddCostStart(p, amount) ==
    /\ bud[p].pc \in {"idle", "done"}
    /\ calls < MaxCalls
    /\ calls' = calls + 1
    /\ bud' = [bud EXCEPT ![p] =
                 IF AddCostValid(amount)
                 THEN [BudIdle EXCEPT !.pc = "read", !.amount = amount, !.month = month]
                 ELSE [BudIdle EXCEPT !.pc = "done", !.amount = amount, !.raised = TRUE]]
    /\ UNCHANGED <<redisVars, rateVars, cop, dbVars, bq, added, analyzeVars>>

\* let budget = await this.getByMonthYear(currentMonth)
AddCostRead(p) ==
    /\ bud[p].pc = "read"
    /\ dbUp
    /\ \E row \in IF RowsOfMonth(budget, bud[p].month) = {} THEN {NoRow}
                   ELSE RowsOfMonth(budget, bud[p].month) :
          bud' = [bud EXCEPT ![p].pc = "write", ![p].row = row]
    /\ UNCHANGED <<redisVars, rateVars, calls, cop, dbVars, bq, added, analyzeVars>>

addCost_Valid_Unchecked(row, amount) == TRUE

\* The schema check of the write of addCost: CreateBudgetSchema for a month
\* without a row, UpdateBudgetSchema otherwise.
addCost_Valid(row, amount) ==
    IF row = NoRow
    THEN BudgetSchemaValid(amount, MonthlyBudget - amount, MonthlyBudget)
    ELSE BudgetSchemaValid(row.used + amount, row.remaining - amount,
                           row.used + row.remaining)

\* The row the write of addCost stores.
addCost_Row(rows, row, m, amount) ==
    IF row = NoRow THEN addCost_NewRow(rows, m, amount)
    ELSE addCost_UpdatedRow(rows, row, amount)

\* INSERT ... RETURNING *, or UPDATE ... WHERE id = $n RETURNING *.
WriteRow(rows, new) == {r \in rows : r.id # new.id} \cup {new}

\* budget = await this.create({...}) for a month without a row, else
\* budget = await this.update(budget.id, {...}); the schema raises before
\* the query is sent.
AddCostWrite(p) ==
    LET a == bud[p].amount
        new == addCost_Row(budget, bud[p].row, bud[p].month, a)
    IN
    /\ bud[p].pc = "write"
    /\ dbUp
    /\ IF addCost_Valid(bud[p].row, a)
       THEN /\ budget' = WriteRow(budget, new)
            /\ bud' = [bud EXCEPT ![p].pc = "done", ![p].ret = new]
            /\ added' = [added EXCEPT ![bud[p].month] = @ + a]
       ELSE /\ bud' = [bud EXCEPT ![p].pc = "done", ![p].raised = TRUE]
            /\ UNCHANGED <<budget, added>>
    /\ UNCHANGED <<redisVars, rateVars, calls, cop, dbUp, month, bq, analyzeVars>>

\* The isBudgetExceeded query: BudgetThresholdSchema.parse, getCurrentMonth.
IsBudgetExceeded(threshold) ==
    /\ ThresholdValid(threshold)
    /\ dbUp
    /\ calls < MaxCalls
    /\ calls' = calls + 1
    /\ \E row \in IF RowsOfMonth(budget, month) = {} THEN {NoRow}
                   ELSE RowsOfMonth(budget, month) :
          bq' = isBudgetExceeded(row, threshold) @@ [fresh |-> added[month] = 0]
    /\ UNCHANGED <<redisVars, rateVars, cop, dbVars, bud, added, analyzeVars>>

\* The row getCurrentMonthBudget inserts for a month without one.
DefaultRow(rows, m) ==
    [id |-> Cardinality(rows) + 1, month |-> m, used |-> 0,
     remaining |-> MonthlyBudget, pct |-> 0]

\* The getCurrentMonthBudget query: the month's row, created with nothing
\* used and the default budget when there is none.
GetCurrentMonthBudget ==
    /\ dbUp
    /\ RowsOfMonth(budget, month) = {}
    /\ budget' = WriteRow(budget, DefaultRow(budget, month))
    /\ UNCHANGED <<redisVars, rateVars, calls, cop, dbUp, month, budgetVars, analyzeVars>>

\* The calendar month of the wall clock changes.
NewMonth ==
    /\ month + 1 \in Months
    /\ month' = month + 1
    /\ UNCHANGED <<redisVars, rateVars, calls, cop, dbUp, budget, budgetVars, analyzeVars>>

-----------------------------------------------------------------------------
(* analyzeText: cache lookup, the (mock) classifier, the history row, the   *)
(* cache write, addCost(0.001) and the statistics, all inside one try.      *)

MaxTextLength == 10000

\* The two analyses the classifier can return (isFake is drawn at random).
Results == {"fake", "real"}

TextLength(text) == Len(text)

\* url: url || null of the mock analysis: a missing or empty URL becomes null.
MockUrl(url) == IF url = "" THEN Null ELSE url

\* z.string().url().optional().or(z.literal('')): a URL, undefined or the
\* empty string pass; null does not.
UrlValid(url) == url # Null /\ url \in Urls

\* CreateAnalysisSchema on the text and URL it is handed; the other fields
\* are the constants of the mock analysis, which pass.
CreateAnalysisValid(text, url) ==
    /\ TextLength(text) >= 1
    /\ TextLength(text) <= MaxTextLength
    /\ UrlValid(url)

\* The object cacheAnalysisResult stores: the analysis with text, url,
\* cached_at and ttl added.
CacheData(result) == "{" \o result \o "}"

\* cachedResult.is_fake of a cache hit.
IsFakeOf(payload) ==
    IF payload = CacheData("fake") THEN "fake"
    ELSE IF payload = CacheData("real") THEN "real"
    ELSE "undefined"

\* isBudgetExceeded(100) answers exceeded whichever row it reads, and the
\* month's total_used has reached the monthly budget.
BudgetExhausted(rows, m) ==
    /\ RowsOfMonth(rows, m) # {}
    /\ \A r \in RowsOfMonth(rows, m) :
          isBudgetExceeded(r, 100).exceeded /\ r.used >= MonthlyBudget

CacheHit_Never(value) == FALSE

\* if (cachedResult): the lookup returned an entry.
CacheHit(value) == value # Null

AnIdle == [pc |-> "idle", text |-> "", url |-> "", key |-> "", result |-> "",
           row |-> NoRow, month |-> 0,
           success |-> FALSE, cached |-> FALSE, isFake |-> "", error |-> "",
           classified |-> FALSE, cacheOps |-> 0, cacheUpSeen |-> FALSE,
           overlapped |-> FALSE, exhaustedAtStart |-> FALSE, budgetReadFailed |-> FALSE,
           saved |-> FALSE, cacheWritten |-> FALSE, charged |-> 0, statsDone |-> FALSE,
           cold |-> FALSE, at |-> 0,
           prevKey |-> "", prevSuccess |-> FALSE, prevCached |-> FALSE,
           prevClassified |-> FALSE, prevCold |-> FALSE, prevAt |-> 0]

InFlight(a) == a.pc \notin {"idle", "done"}

AnalyzeFailed_Success(a, message) ==
    [a EXCEPT !.pc = "done", !.success = TRUE, !.cached = FALSE, !.isFake = a.result,
              !.error = "", !.row = NoRow]

\* The catch block of analyzeText.
AnalyzeFailed(a, message) ==
    [a EXCEPT !.pc = "done", !.success = FALSE, !.cached = FALSE, !.isFake = "",
              !.error = message, !.row = NoRow]

\* The calls once analyzeText is entered by worker p.
AnalyzeEntered(p, text, url) ==
    LET key == generateAnalysisKey(text, url)
        others == {q \in Procs \ {p} : InFlight(an[q]) /\ an[q].key = key}
    IN
    [q \in Procs |->
        IF q = p
        THEN [AnIdle EXCEPT !.pc = "cacheGet", !.text = text, !.url = url,
                            !.key = key, !.overlapped = others # {},
                            !.exhaustedAtStart = BudgetExhausted(budget, month),
                            !.cold = redis[key].kind = "none",
                            !.at = now,
                            !.prevKey = an[p].key,
                            !.prevSuccess = an[p].success,
                            !.prevCached = an[p].cached,
                            !.prevClassified = an[p].classified,
                            !.prevCold = an[p].cold,
                            !.prevAt = an[p].at]
        ELSE IF q \in others THEN [an[q] EXCEPT !.overlapped = TRUE]
        ELSE an[q]]

\* analyzeText is called.
AnalyzeStart(p, text, url) ==
    /\ an[p].pc \in {"idle", "done"}
    /\ calls < MaxAnalyses
    /\ calls' = calls + 1
    /\ an' = AnalyzeEntered(p, text, url)
    /\ UNCHANGED <<redisVars, rateVars, cop, dbVars, budgetVars, analyses, stats,
                   classifierCalls>>

\* const cachedResult = await CacheModel.getCachedAnalysisResult(...): a hit
\* returns at once; on a miss the analysis is computed, and
\* AnalysisModel.create checks its input before it sends the INSERT.
AnalyzeCacheGet(p) ==
    LET a == an[p]
        r == CacheModel_get(redis, redisUp, a.key)
        seen == [a EXCEPT !.cacheOps = @ + 1, !.cacheUpSeen = @ \/ redisUp]
    IN
    /\ a.pc = "cacheGet"
    /\ IF r.raised
       THEN /\ an' = [an EXCEPT ![p] = AnalyzeFailed(seen, "cache key")]
            /\ UNCHANGED classifierCalls
       ELSE IF CacheHit(r.value)
       THEN /\ an' = [an EXCEPT ![p] = [seen EXCEPT !.pc = "done", !.success = TRUE,
                                                    !.cached = TRUE,
                                                    !.isFake = IsFakeOf(r.value)]]
            /\ UNCHANGED classifierCalls
       ELSE /\ \E result \in Results :
                 LET c == [seen EXCEPT !.classified = TRUE, !.result = result] IN
                 an' = [an EXCEPT ![p] =
                          IF CreateAnalysisValid(a.text, MockUrl(a.url))
                          THEN [c EXCEPT !.pc = "dbCreate"]
                          ELSE AnalyzeFailed(c, "validation")]
            /\ classifierCalls' = [classifierCalls EXCEPT ![a.key] = @ + 1]
    /\ UNCHANGED <<redisVars, rateVars, calls, cop, dbVars, budgetVars, analyses, stats>>

\* const savedAnalysis = await AnalysisModel.create({...})
AnalyzeDbCreate(p) ==
    /\ an[p].pc = "dbCreate"
    /\ dbUp
    /\ analyses' = analyses + 1
    /\ an' = [an EXCEPT ![p].pc = "cacheSet", ![p].saved = TRUE]
    /\ UNCHANGED <<redisVars, rateVars, calls, cop, dbVars, budgetVars, stats,
                   classifierCalls>>

\* await CacheModel.cacheAnalysisResult({...}) with the default TTL
AnalyzeCacheSet(p) ==
    LET a == an[p]
        r == CacheModel_set(redis, redisUp, a.key, CacheData(a.result), DefaultTTL, now)
        seen == [a EXCEPT !.cacheOps = @ + 1, !.cacheUpSeen = @ \/ redisUp,
                          !.cacheWritten = redisUp /\ ~r.raised
                                             /\ r.store[a.key].kind = "str"]
    IN
    /\ a.pc = "cacheSet"
    /\ redis' = r.store
    /\ an' = [an EXCEPT ![p] = IF r.raised THEN AnalyzeFailed(seen, "cache input")
                               ELSE [seen EXCEPT !.pc = "budgetRead"]]
    /\ UNCHANGED <<now, redisUp, rateVars, calls, cop, dbVars, budgetVars, analyses,
                   stats, classifierCalls>>

\* await BudgetModel.addCost(0.001): the read of the month's row
AnalyzeBudgetRead(p) ==
    /\ an[p].pc = "budgetRead"
    /\ dbUp
    /\ \E row \in IF RowsOfMonth(budget, month) = {} THEN {NoRow}
                   ELSE RowsOfMonth(budget, month) :
          an' = [an EXCEPT ![p].pc = "budgetWrite", ![p].row = row, ![p].month = month]
    /\ UNCHANGED <<redisVars, rateVars, calls, cop, dbVars, budgetVars, analyses, stats,
                   classifierCalls>>

\* await BudgetModel.addCost(0.001): the schema check and the write
AnalyzeBudgetWrite(p) ==
    LET a == an[p]
        new == addCost_Row(budget, a.row, a.month, MockCost)
    IN
    /\ a.pc = "budgetWrite"
    /\ dbUp
    /\ IF addCost_Valid(a.row, MockCost)
       THEN /\ budget' = WriteRow(budget, new)
            /\ added' = [added EXCEPT ![a.month] = @ + MockCost]
            /\ an' = [an EXCEPT ![p].pc = "stats", ![p].charged = @ + 1]
       ELSE /\ an' = [an EXCEPT ![p] = AnalyzeFailed(a, "budget schema")]
            /\ UNCHANGED <<budget, added>>
    /\ UNCHANGED <<redisVars, rateVars, calls, cop, dbUp, month, bud, bq, analyses,
                   stats, classifierCalls>>

\* await StatisticsModel.recalculate(), and the success response
AnalyzeStats(p) ==
    /\ an[p].pc = "stats"
    /\ dbUp
    /\ stats' = analyses
    /\ an' = [an EXCEPT ![p].pc = "done", ![p].success = TRUE, ![p].cached = FALSE,
                        ![p].isFake = an[p].result, ![p].row = NoRow,
                        ![p].statsDone = TRUE]
    /\ UNCHANGED <<redisVars, rateVars, calls, cop, dbVars, budgetVars, analyses,
                   classifierCalls>>

\* A query of the call failed: the catch block answers success = FALSE.
AnalyzeDbFail(p) ==
    /\ an[p].pc \in {"dbCreate", "budgetRead", "budgetWrite", "stats"}
    /\ ~dbUp
    /\ an' = [an EXCEPT ![p] =
                 [AnalyzeFailed(an[p], "database")
                     EXCEPT !.budgetReadFailed = an[p].pc = "budgetRead"]]
    /\ UNCHANGED <<redisVars, rateVars, calls, cop, dbVars, budgetVars, analyses, stats,
                   classifierCalls>>

\* The addCost mutation, run on its own from its read to its write.
AddCostAlone(amount) ==
    LET rows == RowsOfMonth(budget, month) IN
    /\ dbUp
    /\ AddCostValid(amount)
    /\ \E row \in IF rows = {} THEN {NoRow} ELSE rows :
          /\ addCost_Valid(row, amount)
          /\ budget' = WriteRow(budget, addCost_Row(budget, row, month, amount))
          /\ added' = [added EXCEPT ![month] = @ + amount]
    /\ UNCHANGED <<redisVars, rateVars, calls, cop, dbUp, month, bud, bq, analyzeVars>>

\* Postgres becomes unreachable, and reachable again.
DbFail ==
    /\ dbUp
    /\ dbUp' = FALSE
    /\ UNCHANGED <<redisVars, rateVars, calls, cop, month, budget, budgetVars,
                   analyzeVars>>

DbRecover ==
    /\ ~dbUp
    /\ dbUp' = TRUE
    /\ UNCHANGED <<redisVars, rateVars, calls, cop, month, budget, budgetVars,
                   analyzeVars>>

-----------------------------------------------------------------------------
(* checkRateLimit and rateLimitMiddleware *)

NoResult == [allowed |-> FALSE, remaining |-> -1, resetTime |-> -1]

Idle == [pc |-> "idle", id |-> "", limit |-> 0, window |-> 0, current |-> 0,
         ord |-> 0, faulted |-> FALSE, result |-> NoResult, response |-> "none",
         hdrRemaining |-> -1, retryAfter |-> 0, incrAt |-> 0]

\* History of one window of a key: the increments made in it, when and with
\* which length its first expiration was attached, and how many were attached.
NoWindow == [n |-> 0, setAt |-> -1, window |-> 0, sets |-> 0]

RateLimitResult_OffByOne(current, ttl, limit, t) ==
    [allowed |-> current < limit,
     remaining |-> Max(0, limit - current),
     resetTime |-> t * 1000 + ttl * 1000]

\* The value checkRateLimit returns after its three commands succeeded.
RateLimitResult(current, ttl, limit, t) ==
    [allowed |-> current <= limit,
     remaining |-> Max(0, limit - current),
     resetTime |-> t * 1000 + ttl * 1000]

RateLimitFailOpen_Closed(limit, timeWindow, t) ==
    [allowed |-> FALSE,
     remaining |-> 0,
     resetTime |-> t * 1000 + timeWindow * 1000]

\* The value checkRateLimit returns from its catch block.
RateLimitFailOpen(limit, timeWindow, t) ==
    [allowed |-> TRUE,
     remaining |-> limit,
     resetTime |-> t * 1000 + timeWindow * 1000]

MiddlewareResponse_AlwaysNext(result) == "next"

\* What the middleware does with the result: 429 or next().
MiddlewareResponse(result) == IF ~result.allowed THEN "429" ELSE "next"

\* A request arrives at a route guarded by rateLimitMiddleware(limit, timeWindow).
StartRequest(p) ==
    /\ req[p].pc \in {"idle", "done", "handler"}
    /\ calls < MaxCalls
    /\ \E i \in Idents, l \in Limits, w \in Windows :
          req' = [req EXCEPT ![p] = [Idle EXCEPT !.pc = "incr", !.id = i,
                                                 !.limit = l, !.window = w]]
    /\ calls' = calls + 1
    /\ UNCHANGED <<now, redisUp, redis, win, cop, dbVars, budgetVars, analyzeVars>>

\* const current = await redis.incr(key)
CheckIncr(p) ==
    LET k == checkRateLimit_key(req[p].id, req[p].limit, req[p].window) IN
    /\ req[p].pc = "incr"
    /\ redisUp
    /\ redis[k].kind \in {"none", "int"}
    /\ redis' = IncrStore(redis, k)
    /\ win' = [win EXCEPT ![k].n = @ + 1]
    /\ req' = [req EXCEPT ![p].current = IncrReply(redis, k),
                          ![p].ord = win[k].n + 1,
                          ![p].incrAt = IF IncrReply(redis, k) = 1 THEN now ELSE 0,
                          ![p].pc = IF IncrReply(redis, k) = 1 THEN "expire" ELSE "ttl"]
    /\ UNCHANGED <<now, redisUp, calls, cop, dbVars, budgetVars, analyzeVars>>

\* if (current === 1) await redis.expire(key, timeWindow)
CheckExpire(p) ==
    LET k == checkRateLimit_key(req[p].id, req[p].limit, req[p].window) IN
    /\ req[p].pc = "expire"
    /\ redisUp
    /\ redis' = ExpireStore(redis, k, req[p].window, now)
    /\ win' = [win EXCEPT ![k].setAt = IF win[k].sets = 0 THEN now ELSE @,
                          ![k].window = IF win[k].sets = 0 THEN req[p].window ELSE @,
                          ![k].sets = @ + 1]
    /\ req' = [req EXCEPT ![p].pc = "ttl", ![p].incrAt = 0]
    /\ UNCHANGED <<now, redisUp, calls, cop, dbVars, budgetVars, analyzeVars>>

\* const ttl = await redis.ttl(key); the result is computed and returned, and
\* the middleware sets its headers and answers 429 or calls next().
CheckTtl(p) ==
    LET k == checkRateLimit_key(req[p].id, req[p].limit, req[p].window)
        ttl == TtlReply(redis, k, now)
        r == RateLimitResult(req[p].current, ttl, req[p].limit, now)
    IN
    /\ req[p].pc = "ttl"
    /\ redisUp
    /\ req' = [req EXCEPT ![p].pc = "done", ![p].result = r,
                          ![p].response = MiddlewareResponse(r),
                          ![p].hdrRemaining = r.remaining,
                          ![p].retryAfter = ttl]
    /\ UNCHANGED <<now, redisUp, redis, win, calls, cop, dbVars, budgetVars, analyzeVars>>

\* A Redis command of the check failed: the catch block of checkRateLimit
\* returns the fail-open result, which the middleware handles as any other.
CheckCatch(p) ==
    LET k == checkRateLimit_key(req[p].id, req[p].limit, req[p].window)
        r == RateLimitFailOpen(req[p].limit, req[p].window, now)
    IN
    /\ req[p].pc \in {"incr", "expire", "ttl"}
    /\ \/ ~redisUp
       \/ req[p].pc = "incr" /\ redis[k].kind = "str"
    /\ req' = [req EXCEPT ![p].pc = "done", ![p].faulted = TRUE, ![p].result = r,
                          ![p].incrAt = 0,
                          ![p].response = MiddlewareResponse(r),
                          ![p].hdrRemaining = r.remaining,
                          ![p].retryAfter = req[p].window]
    /\ UNCHANGED <<now, redisUp, redis, win, calls, cop, dbVars, budgetVars, analyzeVars>>

\* next(): the request reaches the handler mounted behind the middleware on
\* /graphql, which runs the analyzeText mutation it carries.
RouteAnalyze(p, text, url) ==
    /\ req[p].pc = "done"
    /\ req[p].response = "next"
    /\ an[p].pc \in {"idle", "done"}
    /\ req' = [req EXCEPT ![p].pc = "handler"]
    /\ an' = AnalyzeEntered(p, text, url)
    /\ UNCHANGED <<redisVars, win, calls, cop, dbVars, budgetVars, analyses, stats,
                   classifierCalls>>

\* The Redis server becomes unreachable, and reachable again.
RedisFail ==
    /\ redisUp
    /\ redisUp' = FALSE
    /\ UNCHANGED <<now, redis, req, win, calls, cop, dbVars, budgetVars, analyzeVars>>

RedisRecover ==
    /\ ~redisUp
    /\ redisUp' = TRUE
    /\ UNCHANGED <<now, redis, req, win, calls, cop, dbVars, budgetVars, analyzeVars>>

\* A second passes; Redis drops the keys whose expiration is reached.
Tick ==
    /\ now < MaxTime
    /\ now' = now + 1
    /\ redis' = Purge(redis, now + 1)
    /\ win' = [k \in DOMAIN win |->
                 IF Purge(redis, now + 1)[k].kind = "none" /\ redis[k].kind # "none"
                 THEN NoWindow ELSE win[k]]
    /\ UNCHANGED <<redisUp, req, calls, cop, dbVars, budgetVars, analyzeVars>>

\* An hour passes at once (the default lifetime of a cache entry).
Elapse ==
    /\ now < MaxTime
    /\ now' = now + DefaultTTL
    /\ redis' = Purge(redis, now + DefaultTTL)
    /\ win' = [k \in DOMAIN win |->
                 IF Purge(redis, now + DefaultTTL)[k].kind = "none" /\ redis[k].kind # "none"
                 THEN NoWindow ELSE win[k]]
    /\ UNCHANGED <<redisUp, req, calls, cop, dbVars, budgetVars, analyzeVars>>

-----------------------------------------------------------------------------

InitRateLimit ==
    /\ now = 0
    /\ redisUp = TRUE
    /\ redis = [k \in Keys |-> Absent]
    /\ req = [p \in Procs |-> Idle]
    /\ win = [k \in RateKeys |-> NoWindow]
    /\ calls = 0
    /\ cop = NoCacheOp
    /\ dbUp = TRUE
    /\ month = 0
    /\ budget = {}
    /\ bud = [p \in Procs |-> BudIdle]
    /\ bq = NoQuery
    /\ added = [m \in Months |-> 0]
    /\ an = [p \in Procs |-> AnIdle]
    /\ analyses = 0
    /\ stats = -1
    /\ classifierCalls = [k \in AnalysisKeys |-> 0]

NextRateLimit ==
    \/ \E p \in Procs : StartRequest(p)
    \/ \E p \in Procs : CheckIncr(p)
    \/ \E p \in Procs : CheckExpire(p)
    \/ \E p \in Procs : CheckTtl(p)
    \/ Tick

SpecRateLimit == InitRateLimit /\ [][NextRateLimit]_vars

NextRateLimitFault ==
    \/ NextRateLimit
    \/ \E p \in Procs : CheckCatch(p)
    \/ RedisFail
    \/ RedisRecover

SpecRateLimitFault == InitRateLimit /\ [][NextRateLimitFault]_vars

InitCache == InitRateLimit

NextCache ==
    \/ \E key \in CacheKeyInputs, data \in Payloads, ttl \in TtlInputs :
          CacheSet("model", key, data, ttl)
    \/ \E key \in PlainKeys, data \in Payloads, ttl \in TtlInputs :
          CacheSet("redis", key, data, ttl)
    \/ \E key \in CacheKeyInputs : CacheGet("model", key)
    \/ \E key \in PlainKeys : CacheGet("redis", key)
    \/ RedisFail
    \/ RedisRecover
    \/ Tick
    \/ Elapse

SpecCache == InitCache /\ [][NextCache]_vars

\* Rate-limit checks of one worker next to callers of the generic cache
\* operations, which take any key of 1 to 500 characters.
NamespaceKeys == {RateKey("ip1"), generateAnalysisKey("t1", ""), "k1"}

InitNamespace == InitRateLimit

NextNamespace ==
    \/ StartRequest("w1")
    \/ CheckIncr("w1")
    \/ CheckExpire("w1")
    \/ CheckTtl("w1")
    \/ CheckCatch("w1")
    \/ \E key \in NamespaceKeys : CacheSet("model", key, "{a}", 1)
    \/ \E key \in NamespaceKeys : CacheDelete(key)
    \/ \E key \in NamespaceKeys : CacheGet("model", key)
    \/ Tick

SpecNamespace == InitNamespace /\ [][NextNamespace]_vars

InitBudget == InitRateLimit

NextBudget ==
    \/ \E p \in Procs, amount \in Amounts : AddCostStart(p, amount)
    \/ \E p \in Procs : AddCostRead(p)
    \/ \E p \in Procs : AddCostWrite(p)
    \/ \E threshold \in Thresholds : IsBudgetExceeded(threshold)
    \/ GetCurrentMonthBudget
    \/ NewMonth

SpecBudget == InitBudget /\ [][NextBudget]_vars

\* The same with one caller: the calls follow one another.
NextBudgetSeq ==
    \/ \E amount \in Amounts : AddCostStart("w1", amount)
    \/ AddCostRead("w1")
    \/ AddCostWrite("w1")
    \/ \E threshold \in Thresholds : IsBudgetExceeded(threshold)
    \/ GetCurrentMonthBudget
    \/ NewMonth

SpecBudgetSeq == InitBudget /\ [][NextBudgetSeq]_vars

Init == InitRateLimit

\* analyzeText calls of concurrent workers, with outages of Redis and of
\* Postgres and with the addCost mutation spending the monthly budget.
Next ==
    \/ \E p \in Procs, input \in AnalyzeInputs : AnalyzeStart(p, input[1], input[2])
    \/ \E p \in Procs : AnalyzeCacheGet(p)
    \/ \E p \in Procs : AnalyzeDbCreate(p)
    \/ \E p \in Procs : AnalyzeCacheSet(p)
    \/ \E p \in Procs : AnalyzeBudgetRead(p)
    \/ \E p \in Procs : AnalyzeBudgetWrite(p)
    \/ \E p \in Procs : AnalyzeStats(p)
    \/ \E p \in Procs : AnalyzeDbFail(p)
    \/ AddCostAlone(MonthlyBudget)
    \/ RedisFail
    \/ RedisRecover
    \/ DbFail
    \/ DbRecover

Spec == Init /\ [][Next]_vars

\* analyzeText calls of one worker, one after the other, with Redis and
\* Postgres reachable throughout.
NextAnalyzeSeq ==
    \/ \E input \in AnalyzeInputs : AnalyzeStart("w1", input[1], input[2])
    \/ AnalyzeCacheGet("w1")
    \/ AnalyzeDbCreate("w1")
    \/ AnalyzeCacheSet("w1")
    \/ AnalyzeBudgetRead("w1")
    \/ AnalyzeBudgetWrite("w1")
    \/ AnalyzeStats("w1")
    \/ Tick
    \/ Elapse

SpecAnalyzeSeq == Init /\ [][NextAnalyzeSeq]_vars

\* Requests to /graphql that carry an analyzeText mutation, through the
\* rate-limit middleware and, when it lets them pass, the resolver.
NextGate ==
    \/ \E p \in Procs : StartRequest(p)
    \/ \E p \in Procs : CheckIncr(p)
    \/ \E p \in Procs : CheckExpire(p)
    \/ \E p \in Procs : CheckTtl(p)
    \/ \E p \in Procs, input \in GateInputs : RouteAnalyze(p, input[1], input[2])
    \/ \E p \in Procs : AnalyzeCacheGet(p)
    \/ \E p \in Procs : AnalyzeDbCreate(p)
    \/ \E p \in Procs : AnalyzeCacheSet(p)
    \/ \E p \in Procs : AnalyzeBudgetRead(p)
    \/ \E p \in Procs : AnalyzeBudgetWrite(p)
    \/ \E p \in Procs : AnalyzeStats(p)

SpecGate == Init /\ [][NextGate]_vars

\* analyzeText calls over every text and URL, up to their cache lookup.
NextKey ==
    \/ \E p \in Procs, text \in Texts, url \in Urls : AnalyzeStart(p, text, url)
    \/ \E p \in Procs : AnalyzeCacheGet(p)

SpecKey == Init /\ [][NextKey]_vars

-----------------------------------------------------------------------------
(* C1: fixed-window rate limiting with a reachable store.  A check that is
   the n-th increment of its window is allowed when n <= limit and is denied
   with remaining = 0 when n = limit + 1; the counter equals n, so it starts
   over at 1 in a new window; and a counter does not outlive the window
   seconds counted from the moment its expiration was attached by the first
   call, so the next check after that opens a new window and is allowed. *)
C1_FixedWindow ==
    /\ \A p \in Procs :
          req[p].pc = "done" =>
             /\ req[p].current = req[p].ord
             /\ req[p].ord <= req[p].limit => req[p].result.allowed
             /\ req[p].ord = req[p].limit + 1 =>
                    ~req[p].result.allowed /\ req[p].result.remaining = 0
    /\ \A k \in RateKeys :
          win[k].setAt # -1 /\ now >= win[k].setAt + win[k].window =>
             redis[k].kind = "none"
    /\ \A k \in RateKeys : redis[k].kind = "none" => win[k].n = 0

\* A caller was denied as call limit+1 of a window, and a later call for the
\* same identifier opened a new window and was allowed.
C1_Witness ==
    \E p, q \in Procs :
        /\ p # q /\ req[p].pc = "done" /\ req[q].pc = "done"
        /\ req[p].id = req[q].id
        /\ req[p].ord = req[p].limit + 1 /\ ~req[p].result.allowed
        /\ req[q].ord = 1 /\ req[q].result.allowed
        /\ req[q].result.resetTime > req[p].result.resetTime
        /\ calls = MaxCalls

(* C8: the rate limiter fails open.  A check one of whose store commands
   failed returns allowed = TRUE with remaining = limit, and the middleware
   calls the next handler. *)
C8_FailOpen ==
    \A p \in Procs :
        req[p].pc = "done" /\ req[p].faulted =>
           /\ req[p].result.allowed
           /\ req[p].result.remaining = req[p].limit
           /\ req[p].response = "next"

\* A check failed after its increment had already counted past the limit.
C8_Witness ==
    \E p \in Procs :
        /\ req[p].pc = "done" /\ req[p].faulted
        /\ req[p].current > req[p].limit
        /\ req[p].response = "next"

(* C9 as stated: CacheStore get and set return normally for every key,
   payload and TTL. *)
C9_NeverRaises ==
    cop.op # "none" => ~cop.raised

\* The inputs of the last cache operation pass the schemas of CacheModel.
C9_InputAccepted ==
    \/ cop.layer = "redis"
    \/ /\ CacheKeyValid(cop.key)
       /\ cop.op = "set" => CacheTTLValid(cop.ttl)

(* C9 as amended: cacheAnalysis and getCachedAnalysis return normally for
   every key, payload and TTL; CacheModel.get and CacheModel.set return
   normally exactly when the key has 1 to 500 characters and (for set) the
   TTL is between 1 and 86400; a get made while the store is down returns
   null; and a set that raised or was made while the store is down leaves
   the keyspace as it was. *)
C9_RaisesOnlyOnBadInput ==
    /\ [](cop.op # "none" =>
            /\ cop.raised <=> ~C9_InputAccepted
            /\ cop.op = "get" /\ ~cop.up => cop.value = Null)
    /\ [][calls' # calls /\ cop'.op = "set" /\ (cop'.raised \/ ~cop'.up)
            => redis' = redis]_vars

\* A set with a valid key and TTL was made while the store was down: it
\* returned normally and the entry stored before it is still there.
C9_Witness ==
    /\ cop.op = "set" /\ cop.layer = "model" /\ ~cop.up /\ ~cop.raised
    /\ cop.data = Null
    /\ redis[cop.key].kind = "str" /\ redis[cop.key].str = "{a}"

-----------------------------------------------------------------------------
(* C3 as stated: no addCost overwrites the effect of another.  Whenever no
   addCost is in flight, the total_used stored for a month is the sum of the
   amounts of the addCost calls that returned. *)
C3_NoLostUpdate ==
    (\A p \in Procs : bud[p].pc \in {"idle", "done"}) =>
        \A m \in Months :
            /\ RowsOfMonth(budget, m) = {} => added[m] = 0
            /\ RowsOfMonth(budget, m) # {} =>
                  \E r \in RowsOfMonth(budget, m) : r.used = added[m]

(* C4 as stated: with one caller, every addCost of a non-negative amount
   succeeds and leaves total_used at its former value plus the amount. *)
C4_SequentialAccrual ==
    \A p \in Procs :
        bud[p].pc = "done" /\ AddCostValid(bud[p].amount) =>
            /\ ~bud[p].raised
            /\ bud[p].ret.used = bud[p].row.used + bud[p].amount
            /\ bud[p].ret \in budget

(* C5 as stated: isBudgetExceeded(100) answers exceeded = TRUE if and only
   if the total_used of the month has reached the monthly budget. *)
C5_HardCap ==
    bq.threshold = 100 => (bq.exceeded <=> bq.used >= MonthlyBudget)

-----------------------------------------------------------------------------
(* C2 as stated: single-flight.  Of two analyzeText calls with the same
   cache key that ran at the same time, at most one computed the analysis,
   and when both have answered they carry the same analysis. *)
C2_SingleFlight ==
    \A p, q \in Procs :
        (/\ p # q
         /\ an[p].pc # "idle" /\ an[q].pc # "idle"
         /\ an[p].key = an[q].key
         /\ an[p].overlapped /\ an[q].overlapped) =>
            /\ ~(an[p].classified /\ an[q].classified)
            /\ (an[p].pc = "done" /\ an[q].pc = "done"
                 /\ an[p].success /\ an[q].success) => an[p].isFake = an[q].isFake

(* C6 as stated: the budget gate.  An analyzeText call that starts while the
   month's budget is exceeded at 100% computes no analysis, does not read or
   write the cache, and answers with the budget error. *)
C6_BudgetGate ==
    \A p \in Procs :
        an[p].exhaustedAtStart =>
            /\ ~an[p].classified
            /\ an[p].cacheOps = 0
            /\ an[p].pc = "done" => ~an[p].success /\ an[p].error = "budget exceeded"

(* C7 as stated: the budget fails closed.  An analyzeText call whose read of
   the budget row failed has computed no analysis and does not answer
   success. *)
C7_BudgetFailsClosed ==
    \A p \in Procs :
        an[p].budgetReadFailed => ~an[p].classified /\ ~an[p].success

(* C10 as stated: a cache outage does not fail requests.  An analyzeText call with
   valid input that found the cache store down at its lookup and at its
   write, and none of whose database steps (history row, budget update,
   statistics) failed, has computed the analysis and answers success = TRUE
   with cached = FALSE. *)
C10_CacheOutage ==
    \A p \in Procs :
        (/\ an[p].pc = "done"
         /\ an[p].cacheOps > 0 /\ ~an[p].cacheUpSeen
         /\ TextLength(an[p].text) >= 1 /\ TextLength(an[p].text) <= MaxTextLength
         /\ an[p].error \notin {"database", "budget schema"}) =>
            an[p].classified /\ an[p].success /\ ~an[p].cached

\* A call that carried a URL went through its lookup and its write with the
\* store down at both, and answered success with a computed analysis.
C10_Witness ==
    \E p \in Procs :
        /\ an[p].pc = "done" /\ an[p].cacheOps = 2 /\ ~an[p].cacheUpSeen
        /\ ~an[p].cacheWritten
        /\ an[p].success /\ an[p].classified /\ ~an[p].cached
        /\ redis[an[p].key].kind = "none"

-----------------------------------------------------------------------------
(* C11 as stated: sequential idempotence.  Of two analyzeText calls with the
   same input made one after the other by one caller, the first starting on
   an empty cache and the second less than the entry's lifetime after it,
   the first answers success with cached = FALSE and computed the analysis,
   and the second answers success with cached = TRUE and computed none. *)
C11_SequentialIdempotence ==
    \A p \in Procs :
        (/\ an[p].pc = "done"
         /\ an[p].prevKey = an[p].key
         /\ an[p].prevCold
         /\ TextLength(an[p].text) >= 1
         /\ now < an[p].prevAt + DefaultTTL) =>
            /\ an[p].prevSuccess /\ ~an[p].prevCached /\ an[p].prevClassified
            /\ an[p].success /\ an[p].cached /\ ~an[p].classified

(* C12: the cache-hit path has no side effects.  When the lookup of an
   analyzeText call finds an entry under its key, that step ends the call
   with success = TRUE, cached = TRUE and the stored analysis, and leaves the
   keyspace (payload and expiration of the entry included), the budget rows,
   the history rows, the statistics and the count of computed analyses as
   they were. *)
C12_HitNoSideEffects ==
    [][\A p \in Procs :
          (/\ an[p].pc = "cacheGet" /\ an'[p].pc # "cacheGet"
           /\ redisUp /\ redis[an[p].key].kind = "str") =>
              /\ an'[p].pc = "done" /\ an'[p].success /\ an'[p].cached
              /\ an'[p].isFake = IsFakeOf(redis[an[p].key].str)
              /\ ~an'[p].classified
              /\ UNCHANGED <<redis, budget, added, analyses, stats, classifierCalls>>]_vars

\* A call was answered from the cache after an earlier call had computed,
\* stored and paid for the analysis: one analysis, one history row, one
\* charge, and the entry as the first call wrote it.
C12_Witness ==
    \E p \in Procs :
        /\ an[p].pc = "done" /\ an[p].success /\ an[p].cached /\ ~an[p].classified
        /\ classifierCalls[an[p].key] = 1
        /\ analyses = 1 /\ stats = 1
        /\ added[month] = MockCost
        /\ redis[an[p].key].kind = "str"
        /\ redis[an[p].key].exp = an[p].prevAt + DefaultTTL

-----------------------------------------------------------------------------
(* C13 as stated: the fixed window under concurrency.  The expiration of a
   counter is attached at most once per window, and it is attached by the
   increment that creates the key: the window seconds of the request that
   created a counter never pass with the counter still waiting for its
   expiration. *)
C13_WindowFromFirstRequest ==
    /\ \A k \in RateKeys : win[k].sets <= 1
    /\ \A p \in Procs :
          req[p].pc = "expire" => now < req[p].incrAt + req[p].window

-----------------------------------------------------------------------------
(* C14: the monthly reset.  Whatever earlier months accrued: an
   isBudgetExceeded query made in a month in which no cost has been added yet
   answers exceeded = FALSE with percentage 0; an addCost(a) that found
   nothing used in its month and returned leaves total_used = a in a row of
   that month; and a step taken while no call of another month is still
   running leaves the rows of the other months as they were. *)
C14_MonthlyReset ==
    /\ [](\A p \in Procs :
             (bud[p].pc = "done" /\ ~bud[p].raised /\ bud[p].row.used = 0) =>
                 /\ bud[p].ret.used = bud[p].amount
                 /\ bud[p].ret.month = bud[p].month)
    /\ [](bq.threshold # -1 /\ bq.fresh => ~bq.exceeded /\ bq.pct = 0)
    /\ [][(\A p \in Procs : bud[p].pc \in {"read", "write"} => bud[p].month = month) =>
              \A r \in budget : r.month # month => r \in budget']_vars

\* Half the budget was spent in the first month; in the second month the
\* query answered not exceeded at 0%, and then the first addCost of the month
\* returned a row holding its amount alone, the first month's row untouched.
C14_Witness ==
    \E p \in Procs :
        /\ month = 1 /\ added[0] = 12500
        /\ bq.threshold = DefaultThreshold /\ bq.fresh /\ ~bq.exceeded /\ ~bq.found
        /\ bud[p].pc = "done" /\ ~bud[p].raised /\ bud[p].month = 1
        /\ bud[p].row = NoRow /\ bud[p].amount = 2 /\ bud[p].ret.used = 2
        /\ \E r \in RowsOfMonth(budget, 0) : r.used = 12500

(* C15 as stated: monotonic spend.  No step stores in a budget row a
   total_used smaller than the one the row held. *)
C15_MonotonicSpend ==
    [][\A r \in budget : \A w \in budget' : w.id = r.id => w.used >= r.used]_vars

(* C16 as stated: validation comes first.  An analyzeText call whose text is
   empty or longer than the maximum makes no cache lookup or write, computes
   no analysis and reads no budget row, and answers with the validation
   error. *)
C16_ValidationFirst ==
    \A p \in Procs :
        (/\ an[p].pc # "idle"
         /\ (TextLength(an[p].text) < 1 \/ TextLength(an[p].text) > MaxTextLength)) =>
            /\ an[p].cacheOps = 0
            /\ ~an[p].classified
            /\ an[p].pc \notin {"budgetRead", "budgetWrite"}
            /\ an[p].pc = "done" => ~an[p].success /\ an[p].error = "validation"

-----------------------------------------------------------------------------
\* The canonical string of an input: "url:" and the URL when one is
\* supplied, else "text:" and the text.
C17_Canonical(text, url) == IF url # "" THEN "url:" \o url ELSE "text:" \o text

(* C17: cache key derivation.  The key of a call is determined by its text
   and URL alone; two calls that supply the same URL have the same key
   whatever their texts; two calls without URL have the same key when their
   texts are the same; and calls whose canonical strings differ have
   different keys (sha256 taken as free of collisions). *)
C17_KeyDerivation ==
    \A p, q \in Procs :
        (an[p].pc # "idle" /\ an[q].pc # "idle") =>
            /\ (an[p].text = an[q].text /\ an[p].url = an[q].url) => an[p].key = an[q].key
            /\ (an[p].url # "" /\ an[p].url = an[q].url) => an[p].key = an[q].key
            /\ (an[p].url = "" /\ an[q].url = "" /\ an[p].text = an[q].text) =>
                   an[p].key = an[q].key
            /\ C17_Canonical(an[p].text, an[p].url) # C17_Canonical(an[q].text, an[q].url)
                   => an[p].key # an[q].key

\* Two calls with different texts and the same URL share their key, which
\* differs from the key either text has without the URL.
C17_Witness ==
    /\ an["w1"].pc # "idle" /\ an["w2"].pc # "idle"
    /\ an["w1"].text = "t1" /\ an["w2"].text = "t2"
    /\ an["w1"].url = "http://u" /\ an["w2"].url = "http://u"
    /\ an["w1"].key = an["w2"].key
    /\ an["w1"].key # generateAnalysisKey("t1", "")
    /\ an["w1"].key # generateAnalysisKey("t1", "http://v")

-----------------------------------------------------------------------------
(* C18 as stated: write-once cache entries.  No step writes the entry of an
   analysis key that holds an entry which has not expired: such an entry
   stays as it is until it expires. *)
C18_WriteOnce ==
    [][\A k \in AnalysisKeys :
          redis[k].kind # "none" => redis'[k] = redis[k] \/ redis'[k].kind = "none"]_vars

-----------------------------------------------------------------------------
(* C19: the rate-limit gate on analyze.  A request whose check returned
   allowed = FALSE is answered 429 with remaining and reset time set, and no
   analyzeText call is entered for it: analyzeText is only ever entered for a
   request whose check returned allowed = TRUE, so a denied request causes no
   cache lookup, no analysis and no budget update. *)
C19_RateLimitGate ==
    /\ [](\A p \in Procs :
             (req[p].pc \in {"done", "handler"} /\ ~req[p].result.allowed) =>
                 /\ req[p].pc = "done" /\ req[p].response = "429"
                 /\ req[p].hdrRemaining = req[p].result.remaining
                 /\ req[p].result.resetTime = (now + req[p].retryAfter) * 1000)
    /\ [][\A p \in Procs :
              (an[p].pc \in {"idle", "done"} /\ an'[p].pc \notin {"idle", "done"}) =>
                  req[p].pc = "done" /\ req[p].result.allowed]_vars

\* A request was denied once the limit of its window was used up by a
\* request that went on to analyze: one analysis was computed and charged,
\* none for the denied request.
C19_Witness ==
    \E p, q \in Procs :
        /\ p # q
        /\ req[p].pc = "done" /\ req[p].response = "429" /\ req[p].result.remaining = 0
        /\ an[p].pc = "idle"
        /\ req[q].pc = "handler" /\ req[q].id = req[p].id
        /\ an[q].pc = "done" /\ an[q].success /\ an[q].classified
        /\ classifierCalls[an[q].key] = 1 /\ added[month] = MockCost

-----------------------------------------------------------------------------
(* C20 as stated: the budget fields never drift.  Every stored budget row
   has total_used + total_remaining equal to the monthly budget and
   percentage_used equal to total_used / budget * 100 (the percentage is
   counted in hundredths). *)
C20_NoDrift ==
    \A r \in budget :
        /\ r.used + r.remaining = MonthlyBudget
        /\ r.pct * MonthlyBudget = r.used * 10000

-----------------------------------------------------------------------------
(* C21: lifetime of a cache entry.                                          *)

\* A step in which a get of the key of the last stored set returns.
C21_GetOfStored ==
    /\ calls' # calls
    /\ cop'.op = "get"
    /\ cop'.lastKey # ""
    /\ cop'.key = cop'.lastKey

\* C21 as stated: after set(key, payload, ttl) has succeeded, a get of the key
\* made before ttl seconds have elapsed and before another write returns a
\* payload equal to the one stored, and a get made after ttl seconds returns
\* absent.
C21_EntryLifetime ==
    [][C21_GetOfStored =>
        cop'.value = IF now < cop.lastAt + cop.lastTtl THEN cop.lastData ELSE Null]_vars

\* C21 amended: such a get returns the JSON round trip of the payload when
\* the store is reachable and fewer than ttl seconds have elapsed, and absent
\* otherwise; a set without a TTL stores its entry for 3600 seconds.
C21_JsonLifetime ==
    [][C21_GetOfStored =>
        /\ cop'.value = IF redisUp /\ now < cop.lastAt + cop.lastTtl
                        THEN JSONparse(JSONstringify(cop.lastData))
                        ELSE Null
        /\ (~cop.lastGiven => cop.lastTtl = DefaultTTL)]_vars

\* A get returned absent for an entry stored without a TTL, 3600 seconds
\* after the set.
C21_Witness ==
    /\ cop.op = "get"
    /\ cop.key = cop.lastKey
    /\ cop.lastData = "{a}"
    /\ ~cop.lastGiven
    /\ cop.up
    /\ cop.value = Null
    /\ now >= cop.lastAt + DefaultTTL

-----------------------------------------------------------------------------
(* C22 as stated: every analyze call that missed the cache and whose
   Classifier call succeeded has written its cost to the month's budget
   exactly once when it returns, and a call that returns without a
   Classifier call has written none. *)
C22_ChargedOnce ==
    \A p \in Procs :
        an[p].pc = "done" =>
            an[p].charged = IF an[p].classified THEN 1 ELSE 0

-----------------------------------------------------------------------------
(* C23 as stated: in every reachable state there is at most one stored
   budget period for any month. *)
C23_OnePeriodPerMonth ==
    \A m \in Months : Cardinality(RowsOfMonth(budget, m)) <= 1

-----------------------------------------------------------------------------
(* C24 as stated: whenever no check call is in flight for an identifier, a
   rate-limit counter that exists for it carries an expiration at most one
   window ahead, also when the store failed between the increment and the
   expire of the call that created the counter. *)
C24_CounterExpires ==
    \A i \in Idents :
        /\ \A p \in Procs : req[p].id = i => req[p].pc \notin {"incr", "expire", "ttl"}
        /\ redis[RateKey(i)].kind = "int"
        => /\ redis[RateKey(i)].exp # NoExpire
           /\ redis[RateKey(i)].exp - now <= MaxWindow

-----------------------------------------------------------------------------
(* C25 as stated: for any interleaving of concurrent check calls on one
   identifier, the TTL read by each call is non-negative (the reset time it
   returns is the time of that read plus the TTL, and the retryAfter of a 429
   response is the TTL). *)
C25_ResetNotInPast ==
    \A p \in Procs :
        req[p].pc = "done" /\ ~req[p].faulted =>
            req[p].retryAfter >= 0

-----------------------------------------------------------------------------
(* C26: an addCost that would overspend is rejected before its write.       *)

\* The amount of the call of p is larger than the remaining budget of the
\* period the call read (the whole budget when it read none).
C26_Overspends(p) ==
    bud[p].amount > (IF bud[p].row = NoRow THEN MonthlyBudget ELSE bud[p].row.remaining)

\* C26: an addCost whose amount is larger than the remaining budget raises
\* and leaves the stored periods as they were, and no stored period has
\* total_remaining < 0 or percentage_used > 100.
C26_OverspendRejected ==
    /\ [][\A p \in Procs :
            bud[p].pc = "write" /\ bud'[p].pc = "done" /\ C26_Overspends(p) =>
                bud'[p].raised /\ budget' = budget]_vars
    /\ [](\A r \in budget : r.remaining >= 0 /\ r.pct <= 100 * 100)

\* An addCost that read a period with less remaining than its amount has
\* raised.
C26_Witness ==
    \E p \in Procs :
        /\ bud[p].pc = "done" /\ bud[p].raised
        /\ bud[p].row # NoRow
        /\ bud[p].row.remaining > 0
        /\ C26_Overspends(p)
        /\ bud[p].row \in budget

-----------------------------------------------------------------------------
(* C27: analyzeText answers every failure with an error response, and       *)
(* answers success only after its steps.                                    *)

\* C27 as stated: a call that missed the cache and did not complete the
\* history write, the cache write, the budget update and the statistics
\* update answers success = FALSE, analysis = null, cached = FALSE with the
\* error message; a response success = TRUE, cached = FALSE is given only
\* when all four have completed.
C27_NoFalseSuccess ==
    \A p \in Procs :
        an[p].pc = "done" =>
            /\ (an[p].classified
                   /\ ~(an[p].saved /\ an[p].cacheWritten /\ an[p].charged = 1
                        /\ an[p].statsDone)
                 => ~an[p].success /\ ~an[p].cached /\ an[p].isFake = ""
                    /\ an[p].error # "")
            /\ (an[p].success /\ ~an[p].cached
                 => an[p].saved /\ an[p].cacheWritten /\ an[p].charged = 1
                    /\ an[p].statsDone)

\* C27 amended: the same for the history write, the budget update and the
\* statistics update; a failure of the store during the cache write is
\* swallowed and does not change the response.
C27_NoFalseSuccessButCache ==
    \A p \in Procs :
        an[p].pc = "done" =>
            /\ (an[p].classified
                   /\ ~(an[p].saved /\ an[p].charged = 1 /\ an[p].statsDone)
                 => ~an[p].success /\ ~an[p].cached /\ an[p].isFake = ""
                    /\ an[p].error # "")
            /\ (an[p].success /\ ~an[p].cached
                 => an[p].saved /\ an[p].charged = 1 /\ an[p].statsDone)
            /\ (an[p].success => an[p].error = "" /\ an[p].isFake # "")

\* A call whose budget update failed after the history write and the cache
\* write answered with the error.
C27_Witness ==
    \E p \in Procs :
        /\ an[p].pc = "done" /\ an[p].classified
        /\ an[p].saved /\ an[p].cacheWritten /\ an[p].charged = 0
        /\ ~an[p].success /\ an[p].error = "database"

-----------------------------------------------------------------------------
(* C28 as stated: for one identifier, a check made under one configuration
   (limit, windowSeconds) leaves the counter and the window that a check
   under any other configuration reads unchanged. *)
C28_SeparateCounters ==
    [][\A p \in Procs :
          req[p].pc = "incr" /\ req'[p].pc \in {"expire", "ttl"} =>
              \A l \in Limits, w \in Windows :
                  <<l, w>> # <<req[p].limit, req[p].window>> =>
                      redis'[checkRateLimit_key(req[p].id, l, w)]
                          = redis[checkRateLimit_key(req[p].id, l, w)]]_vars

-----------------------------------------------------------------------------
(* C29 as stated: no generic cache operation (set, delete) creates,
   overwrites or expires a rate-limit counter or an analysis entry: a step
   of CacheModel.set or CacheModel.delete leaves every key rate_limit:<id>
   and every analysis key as it was. *)
C29_NamespaceIsolation ==
    [][cop'.op \in {"set", "delete"} /\ calls' # calls =>
          \A k \in RateKeys \cup AnalysisKeys : redis'[k] = redis[k]]_vars

-----------------------------------------------------------------------------
(* C30: for every request whose check has returned, the middleware has done
   exactly one of two things: called next() when the check allowed the
   request (or failed open), or answered 429 without next() when it did not;
   and the X-RateLimit-Remaining header is the remaining value of that
   check. *)
C30_MiddlewareGating ==
    \A p \in Procs :
        req[p].pc \in {"done", "handler"} =>
            /\ req[p].response \in {"next", "429"}
            /\ req[p].response = "next" <=> req[p].result.allowed
            /\ req[p].faulted => req[p].response = "next"
            /\ req[p].hdrRemaining = req[p].result.remaining
            /\ req[p].hdrRemaining = Max(0, req[p].limit
                                            - IF req[p].faulted THEN 0 ELSE req[p].current)

\* A request over the limit was answered 429 with X-RateLimit-Remaining 0
\* while another request failed open and was passed on.
C30_Witness ==
    \E p, q \in Procs :
        /\ req[p].pc = "done" /\ ~req[p].faulted
        /\ req[p].current > req[p].limit
        /\ req[p].response = "429" /\ req[p].hdrRemaining = 0
        /\ req[q].pc = "done" /\ req[q].faulted /\ req[q].response = "next"

====
